---- MODULE Spec2Model ----
(***************************************************************************)
(* Model of the graph-partitioning core: AbstractPartitioningMethod        *)
(* (partition(), its result cache, the derived queries), the randomized    *)
(* contiguous growth of LeaderElectionUniform._partition_impl, and the     *)
(* contiguity validator all_partitions_contiguous.                         *)
(*                                                                         *)
(* Vectors are functions on 0..N-1 (numpy arrays indexed by node id).      *)
(* Every np.random draw is a nondeterministic choice; the generator is a   *)
(* deterministic function of its seed and of the draws made since seeding, *)
(* which rng_trace / rng_memo record, so that a run re-seeded with the     *)
(* same seed replays the draws of an earlier run that asked for the same.  *)
(***************************************************************************)
EXTENDS Integers, Sequences, FiniteSets, TLC

(* ------------------------------ bounds -------------------------------- *)
\* partition() calls one caller makes on one instance
MaxCalls == 2
\* the printed retry counter partition_try_num saturates here
MaxTries == 2
\* draws recorded per run while a later run can still replay them
MaxDraws == 7

(* ------------------------- program constants -------------------------- *)
\* np.ones(...) * -1 : the "unassigned" sentinel
Unassigned == -1
\* LeaderElectionUniform.__init__(..., seed=0, ...)
DefaultSeed == 0

(* ------------------------------ graphs -------------------------------- *)
\* An undirected graph holds each edge in both directions; a DiGraph holds
\* exactly its arcs.
Sym(E) == E \cup {<<e[2], e[1]>> : e \in E}

Graph(nm, n, E) == [name |-> nm, n |-> n, edges |-> E]

PathEdges(n) == {<<i, i + 1>> : i \in 0..(n - 2)}
StarEdges(n) == {<<0, i>> : i \in 1..(n - 1)}

P1 == Graph("P1", 1, {})
P3 == Graph("P3", 3, Sym(PathEdges(3)))
P4 == Graph("P4", 4, Sym(PathEdges(4)))
C4 == Graph("C4", 4, Sym(PathEdges(4) \cup {<<3, 0>>}))
P5 == Graph("P5", 5, Sym(PathEdges(5)))
\* a centre and six leaves
Star7 == Graph("Star7", 7, Sym(StarEdges(7)))
\* edge 0-1 and the isolated node 2
Split3 == Graph("Split3", 3, Sym({<<0, 1>>}))
\* two components of two nodes each
Split4 == Graph("Split4", 4, Sym({<<0, 1>>, <<2, 3>>}))
\* DiGraphs: a directed path and a directed 3-cycle (strongly connected)
DiP3 == Graph("DiP3", 3, PathEdges(3))
DiC3 == Graph("DiC3", 3, PathEdges(3) \cup {<<2, 0>>})

Nodes(g) == 0..(g.n - 1)

\* every other node counted as a neighbour
AllNeighborsAnywhere(g, v) == Nodes(g) \ {v}

\* nx.all_neighbors(G, v): successors and predecessors
AllNeighbors(g, v) == {x \in Nodes(g) : <<v, x>> \in g.edges \/ <<x, v>> \in g.edges}

\* no call in progress
NoGraph == Graph("", 0, {})

(* ----------------------------- the validator ------------------------- *)
\* the nodes of S that a path inside G.subgraph(S) reaches from the nodes seen
RECURSIVE Reach(_, _, _)
Reach(g, S, seen) ==
  LET more == {y \in S \ seen : \E x \in seen : <<x, y>> \in g.edges}
  IN IF more = {} THEN seen ELSE Reach(g, S, seen \cup more)

\* nx.has_path(G.subgraph(S), src, target)
HasPath(g, S, src, target) == target \in Reach(g, S, {src})

\* is_partition_valid: every ordered pair of distinct members has a path
IsPartitionValid(g, S) ==
  \A src, target \in S : src # target => HasPath(g, S, src, target)

\* the answer of all_partitions_contiguous, when it answers: every id of
\* np.unique(partition_vector) is a valid partition of the graph
AllPartitionsContiguous(g, pv) ==
  \A k \in {pv[x] : x \in DOMAIN pv} :
    IsPartitionValid(g, {x \in DOMAIN pv : pv[x] = k})

\* np.argwhere(partition_vector == k).flatten()
Members(v, p) == {x \in DOMAIN v : v[x] = p}

\* what all_partitions_contiguous is handed as prob: a networkx graph (it has
\* subgraph(), no attribute G), an object that holds the graph in its
\* attribute G (it has no subgraph()), or a graph that also names itself G
GraphObject(g) == [kind |-> "graph", G |-> g]
ProblemObject(g) == [kind |-> "problem", G |-> g]
GraphWithG(g) == [kind |-> "graph_with_G", G |-> g]

\* prob.G is there / prob.subgraph is there
HasG(prob) == prob.kind \in {"problem", "graph_with_G"}
HasSubgraph(prob) == prob.kind \in {"graph", "graph_with_G"}

\* for k in np.unique(partition_vector), in ascending order: print(k) and
\* return False at the first partition that is not valid, True after the last
RECURSIVE ContiguousLoop(_, _, _)
ContiguousLoop(g, pv, ks) ==
  IF ks = {}
    THEN [kind |-> "value", ok |-> TRUE, printed |-> << >>, p_v |-> pv]
    ELSE LET k == CHOOSE x \in ks : \A y \in ks : x <= y
         IN IF ~IsPartitionValid(g, Members(pv, k))
              THEN [kind |-> "value", ok |-> FALSE, printed |-> <<k>>, p_v |-> pv]
              ELSE ContiguousLoop(g, pv, ks \ {k})

\* one call all_partitions_contiguous(prob, p_v): the first pass of the loop
\* reads prob.G, then is_partition_valid calls prob.subgraph
AllPartitionsContiguousCall(prob, pv) ==
  LET ks == {pv[x] : x \in DOMAIN pv}
  IN IF ks # {} /\ (~HasG(prob) \/ ~HasSubgraph(prob))
       THEN [kind |-> "AttributeError", ok |-> FALSE, printed |-> << >>, p_v |-> pv]
       ELSE ContiguousLoop(prob.G, pv, ks)

(* ------------------------- numpy-level helpers ------------------------ *)
\* np.sum(partition_vector == p)
CountOf(pv, p) == Cardinality({x \in DOMAIN pv : pv[x] = p})

\* np.argwhere(partition_vector == -1).flatten()
UnassignedNodes(pv) == {x \in DOMAIN pv : pv[x] = Unassigned}

\* int(np.sqrt(n))
ISqrt(n) == CHOOSE r \in 0..n : r * r <= n /\ (r + 1) * (r + 1) > n

\* a tolerance t = num/den is kept as self.tolerance = 1 + t = (den+num)/den
OnePlus(t) == [num |-> t.den + t.num, den |-> t.den]

\* the cap test with < in place of <=
UnderCapStrict(pv, p, tol, u) == CountOf(pv, p) * tol.den < tol.num * (u + 1)

\* np.sum(partition_vector == p) <= self.tolerance * (uniform_partition_num + 1)
UnderCap(pv, p, tol, u) == CountOf(pv, p) * tol.den <= tol.num * (u + 1)

\* the same without the test partition_vector[x] != -1
NeighboringPartitionsWithUnassigned(g, pv, v, tol, u) ==
  {pv[x] : x \in {y \in AllNeighbors(g, v) : UnderCap(pv, pv[y], tol, u)}}

\* np.unique([partition_vector[x] for x in nx.all_neighbors(G, v)
\*            if partition_vector[x] != -1 and <under cap>])
NeighboringPartitions(g, pv, v, tol, u) ==
  {pv[x] : x \in {y \in AllNeighbors(g, v) :
                    pv[y] # Unassigned /\ UnderCap(pv, pv[y], tol, u)}}

\* the outcomes with replace=True: k nodes, not necessarily distinct
SeedTuplesWithReplacement(n, k) == [1..k -> 0..(n - 1)]

\* outcomes of np.random.choice(G.nodes, k, replace=False): k distinct nodes
SeedTuples(n, k) ==
  {s \in [1..k -> 0..(n - 1)] : \A i, j \in 1..k : s[i] = s[j] => i = j}

\* the seeds numbered 1..k instead of 0..k-1
SeededVectorFromOne(n, s) ==
  [x \in 0..(n - 1) |->
     IF \E i \in DOMAIN s : s[i] = x
       THEN CHOOSE i \in DOMAIN s : s[i] = x
       ELSE Unassigned]

\* partition_vector = -1 everywhere; partition_vector[seed_nodes] = np.arange(k)
SeededVector(n, s) ==
  [x \in 0..(n - 1) |->
     IF \E i \in DOMAIN s : s[i] = x
       THEN (CHOOSE i \in DOMAIN s : s[i] = x) - 1
       ELSE Unassigned]

(* ------------------------------- state -------------------------------- *)
VARIABLES
  cls,                    \* the class of the strategy instance
  self_num_partitions,    \* self._num_partitions: <<>> (no attribute) or <<k>>
  self_use_cache,         \* self._use_cache
  self_best_partitions,   \* self._best_partitions: G.name -> assignment
  self_partition_vector,  \* self._partition_vector: <<>> (no attribute) or <<vector>>
  self_seed,              \* self.seed
  self_tolerance,         \* self.tolerance = 1 + tolerance, as num/den
  caller_graphs,          \* the graphs the caller holds
  num_partitions_arg,     \* the num_partitions argument of the constructor
  planned_calls,          \* how many partition() calls the caller makes
  val_prob,               \* the prob argument of all_partitions_contiguous
  val_p_v,                \* its p_v argument
  val_result,             \* << >>, or what the call gave back
  returns,                \* what each partition() call gave back, in order
  last_name,              \* what the last read of .name gave
  pc,                     \* "idle", or the place inside _partition_impl
  G,                      \* the graph of the call in progress
  override_cache,         \* the override_cache argument of that call
  partition_vector,       \* local partition_vector of _partition_impl
  uniform_partition_num,  \* local uniform_partition_num
  partition_try_num,      \* local partition_try_num
  new_node,               \* local new_node
  neighboring_partitions, \* local neighboring_partitions
  already_tried,          \* local already_tried
  rng_trace,              \* the draws made since np.random.seed
  rng_memo                \* the draws of earlier runs from the same seed

self_vars == <<cls, self_num_partitions, self_use_cache, self_best_partitions,
               self_partition_vector, self_seed, self_tolerance>>
caller_vars == <<caller_graphs, num_partitions_arg, planned_calls,
                 val_prob, val_p_v, val_result>>
local_vars == <<G, override_cache, partition_vector, uniform_partition_num, partition_try_num,
                new_node, neighboring_partitions, already_tried>>
rng_vars == <<rng_trace, rng_memo>>
vars == <<self_vars, caller_vars, returns, last_name, pc, local_vars, rng_vars>>

Abstract == "AbstractPartitioningMethod"
Uniform == "LeaderElectionUniform"

\* one entry of returns: the call's arguments, use_cache, how it ended ("value" or the
\* exception raised), the vector returned and whether _partition_impl ran
Ret(g, ov, kind, val, ran) ==
  [g |-> g.name, override |-> ov, use_cache |-> self_use_cache, kind |-> kind,
   value |-> val, computed |-> ran]

(* ---------------------------- random source --------------------------- *)
\* the generator goes on from where the last run left it
ReseedSkipped(trace) == trace

\* np.random.seed(self.seed): the generator starts over
Reseed(trace) == << >>

\* draws are recorded while a later run of this caller can replay them
Tracked == planned_calls > 1

\* the generator is a function of the seed and of the draws so far: a draw
\* an earlier run made after the same draws, for the same request, repeats
Repeats(req, out) ==
  \A t \in rng_memo :
    (/\ Len(t) > Len(rng_trace)
     /\ SubSeq(t, 1, Len(rng_trace)) = rng_trace
     /\ t[Len(rng_trace) + 1].req = req)
    => t[Len(rng_trace) + 1].out = out

\* one np.random.choice: req = <<population size, sample size>>, out = the
\* positions drawn
Draw(req, out) ==
  /\ IF Tracked
       THEN /\ Len(rng_trace) < MaxDraws
            /\ Repeats(req, out)
            /\ rng_trace' = Append(rng_trace, [req |-> req, out |-> out])
       ELSE rng_trace' = rng_trace
  /\ UNCHANGED rng_memo

\* np.random.choice(a) for a sorted array a holding the set S gives x
DrawOne(S, x) == Draw(<<Cardinality(S), 0>>, <<Cardinality({y \in S : y < x})>>)

(* ------------------------ AbstractPartitioningMethod ------------------ *)
\* the first definition of the base class's name property, which raises a
\* plain Exception, taken instead of the second
NameOfFirst(c) == IF c = Uniform THEN "leader_election_uniform" ELSE "Exception"

\* the .name property: the base class raises, the subclass names itself
NameOf(c) == IF c = Uniform THEN "leader_election_uniform" ELSE "NotImplementedError"

\* reading strategy.name
ReadName ==
  /\ pc = "idle"
  /\ last_name # NameOf(cls)
  /\ last_name' = NameOf(cls)
  /\ UNCHANGED <<self_vars, caller_vars, returns, pc, local_vars, rng_vars>>

\* the use_cache setter
SetUseCache(b) ==
  /\ pc = "idle"
  /\ self_use_cache # b
  /\ self_use_cache' = b
  /\ UNCHANGED <<cls, self_num_partitions, self_best_partitions, self_partition_vector,
                 self_seed, self_tolerance, caller_vars, returns, last_name, pc,
                 local_vars, rng_vars>>

\* the cache test of partition()
CacheHit(g, ov) == ~ov /\ self_use_cache /\ g.name \in DOMAIN self_best_partitions

\* np.bincount(v): how often each of 0..max(v) occurs in v
Bincount(v) ==
  LET top == CHOOSE m \in {v[x] : x \in DOMAIN v} : \A x \in DOMAIN v : v[x] <= m
  IN [p \in 0..top |-> CountOf(v, p)]

\* the last index of the largest entry
ArgMaxLast(c) ==
  CHOOSE i \in DOMAIN c :
    /\ \A j \in DOMAIN c : c[j] <= c[i]
    /\ \A j \in DOMAIN c : j > i => c[j] < c[i]

\* np.argmax(c): the first index of the largest entry
ArgMax(c) ==
  CHOOSE i \in DOMAIN c :
    /\ \A j \in DOMAIN c : c[j] <= c[i]
    /\ \A j \in DOMAIN c : j < i => c[j] < c[i]

\* the size_of_largest_partition property
size_of_largest_partition ==
  LET counts == Bincount(self_partition_vector[1])
  IN counts[ArgMax(counts)]

\* the largest_partition_index property
largest_partition_index ==
  LET counts == Bincount(self_partition_vector[1])
  IN ArgMax(counts)

\* the num_partitions property
num_partitions == IF Len(self_num_partitions) = 0 THEN -1 ELSE self_num_partitions[1]

\* the default count taken anew for the graph of every call
NumPartitionsForEach(g) ==
  IF Len(num_partitions_arg) = 0 THEN <<ISqrt(g.n)>> ELSE self_num_partitions

\* self._num_partitions after the hasattr test of _partition_impl
NumPartitionsFor(g) ==
  IF Len(self_num_partitions) = 0 THEN <<ISqrt(g.n)>> ELSE self_num_partitions

\* partition(G, override_cache) up to the first draw: the cache test, then
\* _partition_impl's prologue (the base class raises there)
Partition(g, ov) ==
  /\ pc = "idle"
  /\ Len(returns) < planned_calls
  /\ g \in caller_graphs
  /\ IF CacheHit(g, ov)
       THEN /\ returns' = Append(returns,
                             Ret(g, ov, "value", <<self_best_partitions[g.name]>>, FALSE))
            /\ UNCHANGED <<self_vars, pc, local_vars, rng_vars>>
       ELSE IF cls = Abstract
         THEN /\ returns' = Append(returns, Ret(g, ov, "NotImplementedError", << >>, TRUE))
              /\ UNCHANGED <<self_vars, pc, local_vars, rng_vars>>
         ELSE /\ self_num_partitions' = NumPartitionsFor(g)
              /\ rng_memo' = IF Tracked THEN rng_memo \cup {rng_trace} ELSE rng_memo
              /\ rng_trace' = Reseed(rng_trace)
              /\ G' = g
              /\ override_cache' = ov
              /\ pc' = "seed"
              /\ UNCHANGED <<cls, self_use_cache, self_best_partitions,
                             self_partition_vector, self_seed, self_tolerance, returns,
                             partition_vector, uniform_partition_num, partition_try_num,
                             new_node, neighboring_partitions, already_tried>>
  /\ UNCHANGED <<caller_vars, last_name>>

(* --------------------- LeaderElectionUniform._partition_impl ---------- *)
\* the locals of a run that is over
NoLocals ==
  /\ G' = NoGraph
  /\ override_cache' = FALSE
  /\ partition_vector' = << >>
  /\ uniform_partition_num' = 0
  /\ partition_try_num' = 0
  /\ new_node' = Unassigned
  /\ neighboring_partitions' = {}
  /\ already_tried' = << >>

\* np.random.choice(G.nodes, k, replace=False) with k > len(G.nodes) raises
\* ValueError, which leaves partition() before self._partition_vector is set
SeedFail ==
  /\ pc = "seed"
  /\ self_num_partitions[1] > G.n
  /\ returns' = Append(returns, Ret(G, override_cache, "ValueError", << >>, TRUE))
  /\ pc' = "idle"
  /\ NoLocals
  /\ UNCHANGED <<self_vars, caller_vars, last_name, rng_vars>>

\* the seed draw and the start of the growth, for the seeds s
SeedNodesWith(s) ==
  /\ pc = "seed"
  /\ s \in SeedTuples(G.n, self_num_partitions[1])
  /\ Draw(<<G.n, self_num_partitions[1]>>, s)
  /\ partition_vector' = SeededVector(G.n, s)
  /\ uniform_partition_num' = G.n \div self_num_partitions[1]
  /\ partition_try_num' = 0
  /\ pc' = "while"
  /\ UNCHANGED <<self_vars, caller_vars, returns, last_name, G, override_cache, new_node,
                 neighboring_partitions, already_tried>>

SeedNodes ==
  /\ pc = "seed"
  /\ \E s \in SeedTuples(G.n, self_num_partitions[1]) : SeedNodesWith(s)

\* the partitions that may still grow, neighbouring v or not
CandidatesAnywhere(v) ==
  {partition_vector[x] :
     x \in {y \in Nodes(G) :
              /\ partition_vector[y] # Unassigned
              /\ UnderCap(partition_vector, partition_vector[y], self_tolerance,
                          uniform_partition_num)}}

\* the neighbouring partitions of v that may still grow
Candidates(v) ==
  NeighboringPartitions(G, partition_vector, v, self_tolerance, uniform_partition_num)

\* the outer loop's test succeeds: pick an unassigned node
PickNode(v) ==
  /\ pc = "while"
  /\ v \in UnassignedNodes(partition_vector)
  /\ DrawOne(UnassignedNodes(partition_vector), v)
  /\ new_node' = v
  /\ neighboring_partitions' = Candidates(v)
  /\ already_tried' = << >>
  /\ pc' = "tried"
  /\ UNCHANGED <<self_vars, caller_vars, returns, last_name, G, override_cache, partition_vector,
                 uniform_partition_num, partition_try_num>>

Range(q) == {q[i] : i \in DOMAIN q}

\* the inner loop's test, giving up one node early
MoreToTryShort ==
  /\ neighboring_partitions = {}
  /\ Len(already_tried) < Cardinality(UnassignedNodes(partition_vector)) - 2

\* the inner loop's test
MoreToTry ==
  /\ neighboring_partitions = {}
  /\ Len(already_tried) < Cardinality(UnassignedNodes(partition_vector)) - 1

\* one pass of the inner loop: another unassigned node, not tried yet
TryOther(v) ==
  /\ pc = "tried"
  /\ MoreToTry
  /\ v \in UnassignedNodes(partition_vector) \ Range(Append(already_tried, new_node))
  /\ DrawOne(UnassignedNodes(partition_vector) \ Range(Append(already_tried, new_node)), v)
  /\ already_tried' = Append(already_tried, new_node)
  /\ new_node' = v
  /\ neighboring_partitions' = Candidates(v)
  /\ UNCHANGED <<self_vars, caller_vars, returns, last_name, pc, G, override_cache, partition_vector,
                 uniform_partition_num, partition_try_num>>

\* the retry counter left as it is
NextTryKept(n) == n

\* partition_try_num += 1 (the counter saturates at MaxTries)
NextTry(n) == IF n < MaxTries THEN n + 1 ELSE n

\* no node had a partition to join: draw the seeds s and start over
RestartWith(s) ==
  /\ pc = "tried"
  /\ ~MoreToTry
  /\ neighboring_partitions = {}
  /\ partition_try_num' = NextTry(partition_try_num)
  /\ s \in SeedTuples(G.n, self_num_partitions[1])
  /\ Draw(<<G.n, self_num_partitions[1]>>, s)
  /\ partition_vector' = SeededVector(G.n, s)
  /\ uniform_partition_num' = G.n \div self_num_partitions[1]
  /\ pc' = "while"
  /\ UNCHANGED <<self_vars, caller_vars, returns, last_name, G, override_cache, new_node,
                 neighboring_partitions, already_tried>>

Restart ==
  /\ pc = "tried"
  /\ \E s \in SeedTuples(G.n, self_num_partitions[1]) : RestartWith(s)

\* partition_vector[new_node] = np.random.choice(neighboring_partitions)
Assign(p) ==
  /\ pc = "tried"
  /\ p \in neighboring_partitions
  /\ DrawOne(neighboring_partitions, p)
  /\ partition_vector' = [partition_vector EXCEPT ![new_node] = p]
  /\ pc' = "while"
  /\ UNCHANGED <<self_vars, caller_vars, returns, last_name, G, override_cache, uniform_partition_num,
                 partition_try_num, new_node, neighboring_partitions, already_tried>>

\* the outer loop's test fails: _partition_impl returns, partition() keeps
\* the vector in self._partition_vector and returns it
Return ==
  /\ pc = "while"
  /\ UnassignedNodes(partition_vector) = {}
  /\ self_partition_vector' = <<partition_vector>>
  /\ returns' = Append(returns, Ret(G, override_cache, "value", <<partition_vector>>, TRUE))
  /\ pc' = "idle"
  /\ NoLocals
  /\ UNCHANGED <<cls, self_num_partitions, self_use_cache, self_best_partitions,
                 self_seed, self_tolerance, caller_vars, last_name, rng_vars>>

(* ------------------------------ the caller ---------------------------- *)
Tolerances == {[num |-> 0, den |-> 1], [num |-> 1, den |-> 5], [num |-> 1, den |-> 1]}

\* num_partitions=None, or an integer from lo to hi
Counts(lo, hi) == {<< >>} \cup {<<k>> : k \in lo..hi}

\* a caller: the class it instantiates, the graphs it holds, the partition
\* counts and tolerances it may configure, the calls it may make
Scenario(c, gs, ks, ts, calls) ==
  [cls |-> c, graphs |-> gs, ks |-> ks, tols |-> ts, calls |-> calls]

\* callers that call partition() repeatedly on small graphs
ApiScenarios ==
  {Scenario(Uniform, {P1, P4}, Counts(2, 2), {[num |-> 1, den |-> 5]}, 1..MaxCalls),
   Scenario(Uniform, {P3}, {<<2>>}, {[num |-> 1, den |-> 5]}, 1..MaxCalls),
   Scenario(Uniform, {Split3}, {<<2>>}, {[num |-> 1, den |-> 5]}, 1..MaxCalls),
   Scenario(Abstract, {P3}, Counts(2, 2), {[num |-> 1, den |-> 5]}, 1..MaxCalls)}

\* callers that partition one graph once
RunScenarios ==
  {Scenario(Uniform, {g}, Counts(1, g.n + 1), Tolerances, {1}) :
     g \in {P3, P4, C4, P5, Split3, Split4, DiP3, DiC3}}

\* callers of one run on the 7-node star with k = 2
LongScenarios ==
  {Scenario(Uniform, {Star7}, {<<2>>}, {[num |-> 1, den |-> 5]}, {1})}

\* the strategy instance after construction by a caller of one of the scenarios
Constructed(scenarios) ==
  \E sc \in scenarios :
    /\ cls = sc.cls
    /\ num_partitions_arg \in sc.ks
    /\ self_num_partitions = num_partitions_arg
    /\ self_use_cache = TRUE
    /\ self_best_partitions = << >>
    /\ self_partition_vector = << >>
    /\ self_seed = DefaultSeed
    /\ self_tolerance \in {OnePlus(t) : t \in sc.tols}
    /\ caller_graphs = sc.graphs
    /\ planned_calls \in sc.calls
    /\ returns = << >>
    /\ last_name = ""
    /\ pc = "idle"
    /\ G = NoGraph
    /\ override_cache = FALSE
    /\ partition_vector = << >>
    /\ uniform_partition_num = 0
    /\ partition_try_num = 0
    /\ new_node = Unassigned
    /\ neighboring_partitions = {}
    /\ already_tried = << >>
    /\ rng_trace = << >>
    /\ rng_memo = {}

\* the state after construction, for a caller that does not validate
InitWith(scenarios) ==
  /\ Constructed(scenarios)
  /\ val_prob = GraphObject(NoGraph)
  /\ val_p_v = << >>
  /\ val_result = << >>

Init == InitWith(ApiScenarios \cup RunScenarios)

AllGraphs == {P1, P3, P4, C4, P5, Star7, Split3, Split4, DiP3, DiC3}

Next ==
  \/ ReadName
  \/ \E b \in BOOLEAN : SetUseCache(b)
  \/ \E g \in AllGraphs, ov \in BOOLEAN : Partition(g, ov)
  \/ SeedFail
  \/ SeedNodes
  \/ \E v \in Nodes(G) : PickNode(v)
  \/ \E v \in Nodes(G) : TryOther(v)
  \/ Restart
  \/ \E p \in neighboring_partitions : Assign(p)
  \/ Return

Spec == Init /\ [][Next]_vars

\* a step of _partition_impl: once called, the run goes on by itself
Run ==
  \/ SeedFail
  \/ SeedNodes
  \/ \E v \in Nodes(G) : PickNode(v)
  \/ \E v \in Nodes(G) : TryOther(v)
  \/ Restart
  \/ \E p \in neighboring_partitions : Assign(p)
  \/ Return

\* the caller only calls partition()
NextRun ==
  \/ \E g \in AllGraphs, ov \in BOOLEAN : Partition(g, ov)
  \/ Run

\* single runs, which never stop half-way
FairSpec ==
  InitWith(RunScenarios \cup LongScenarios) /\ [][NextRun]_vars /\ WF_vars(Run)

(* ----------------------- a caller of the validator -------------------- *)
\* the call all_partitions_contiguous(val_prob, val_p_v)
Validate ==
  /\ val_result = << >>
  /\ val_result' = <<AllPartitionsContiguousCall(val_prob, val_p_v)>>
  /\ UNCHANGED <<self_vars, caller_graphs, num_partitions_arg, planned_calls, val_prob,
                 val_p_v, returns, last_name, pc, local_vars, rng_vars>>

\* a caller that holds no graph to partition
ValidatorScenarios == {Scenario(Uniform, {}, {<< >>}, {[num |-> 1, den |-> 5]}, {0})}

\* the graphs handed to the validator, the graph without nodes among them
ValidatorGraphs == {NoGraph, P1, P3, C4, Split3, DiP3, DiC3}

\* a graph, handed over as one of the three kinds of object, and an assignment
\* of its nodes to the ids 0, 1, 2
ValidatorInit ==
  /\ Constructed(ValidatorScenarios)
  /\ \E g \in ValidatorGraphs :
       /\ val_prob \in {GraphObject(g), ProblemObject(g), GraphWithG(g)}
       /\ val_p_v \in [Nodes(g) -> 0..2]
  /\ val_result = << >>

ValidatorNext == Validate

ValidatorSpec == ValidatorInit /\ [][ValidatorNext]_vars

(* ====================================================================== *)
(* The claims                                                             *)
(* ====================================================================== *)
\* the caller's graph behind a name recorded in returns
GraphNamed(nm) == CHOOSE g \in AllGraphs : g.name = nm

\* a run of _partition_impl is in progress after its seed draw
Growing == pc \in {"while", "tried"}

\* the configured partition count of a run in progress or over
K == self_num_partitions[1]

\* every node reaches every other along the edges (for a DiGraph: along the
\* arcs, that is, the graph is strongly connected)
Connected(g) == \A x \in Nodes(g) : Reach(g, Nodes(g), {x}) = Nodes(g)

\* the entries of returns that are assignment vectors
Values == {i \in DOMAIN returns : returns[i].kind = "value"}

(* C1: whenever LeaderElectionUniform.partition(G) returns, the vector has one
   entry per node of G and every entry is a partition id in 0..k-1, so none
   is the sentinel -1. *)
C1_ResultInRange ==
  \A i \in Values :
    LET v == returns[i].value[1]
        g == GraphNamed(returns[i].g)
    IN /\ DOMAIN v = Nodes(g)
       /\ \A x \in DOMAIN v : v[x] \in 0..(K - 1) /\ v[x] # Unassigned

\* a run on the 5-node path with k = 3 has returned after growing
C1_Witness ==
  /\ pc = "idle"
  /\ \E i \in Values : returns[i].g = "P5" /\ K = 3 /\ returns[i].computed

(* C2: at every moment of the growth, and in the result, every partition i
   has size at most (1 + tolerance) * (floor(N/k) + 1). *)
C2_BalanceCap ==
  Growing =>
    \A p \in 0..(K - 1) :
      CountOf(partition_vector, p) * self_tolerance.den
        <= self_tolerance.num * ((G.n \div K) + 1)

(* C3: for every connected input graph, directed or undirected, the validator
   accepts every vector LeaderElectionUniform.partition returns. *)
C3_ContiguousResult ==
  \A i \in Values :
    Connected(GraphNamed(returns[i].g))
      => AllPartitionsContiguous(GraphNamed(returns[i].g), returns[i].value[1])

\* C3 on the undirected graphs only (every edge held in both directions)
ContiguousOnUndirected ==
  \A i \in Values :
    LET g == GraphNamed(returns[i].g)
    IN (Connected(g) /\ g.edges = Sym(g.edges))
         => AllPartitionsContiguous(g, returns[i].value[1])

(* C5: with use_cache true, among the calls that pass override_cache=false
   and the same graph name and return an assignment, _partition_impl runs at
   most once: every call after the first returns without recomputation. *)
C5_AtMostOnce ==
  \A i, j \in Values :
    (/\ i < j
     /\ returns[i].g = returns[j].g
     /\ returns[i].use_cache /\ returns[j].use_cache
     /\ ~returns[i].override /\ ~returns[j].override)
    => ~returns[j].computed

(* C6: when partition() has run the algorithm and returned, the result cache
   maps the graph's name to exactly the vector returned. *)
C6_CacheStore ==
  \A i \in Values :
    (i = Len(returns) /\ returns[i].computed)
    => /\ returns[i].g \in DOMAIN self_best_partitions
       /\ self_best_partitions[returns[i].g] = returns[i].value[1]

(* C7: two partition() calls on one LeaderElectionUniform instance for the
   same graph, with caching enabled and no override, return vectors with
   identical values. *)
C7_Idempotent ==
  \A i, j \in Values :
    (/\ returns[i].g = returns[j].g
     /\ returns[i].use_cache /\ returns[j].use_cache
     /\ ~returns[i].override /\ ~returns[j].override)
    => returns[i].value[1] = returns[j].value[1]

\* two such calls on the 3-node path with k = 2 have returned, both having
\* run the growth
C7_Witness ==
  \E i, j \in Values :
    /\ i < j
    /\ returns[i].g = "P3" /\ returns[j].g = "P3"
    /\ returns[i].use_cache /\ returns[j].use_cache
    /\ ~returns[i].override /\ ~returns[j].override
    /\ returns[i].computed /\ returns[j].computed
    /\ K = 2

\* a failed partition() call on the base class changes nothing of the instance
AbstractCallKeepsState ==
  (cls = Abstract /\ Len(returns') > Len(returns))
    => /\ UNCHANGED self_vars
       /\ returns'[Len(returns')].kind = "NotImplementedError"

(* C8: on an AbstractPartitioningMethod instance, reading name and calling
   partition(G) each fail with NotImplementedError, and the failed call
   leaves the instance unchanged: no partition_vector, no cache entry. *)
C8_AbstractFails ==
  /\ [](cls = Abstract =>
          /\ last_name \in {"", "NotImplementedError"}
          /\ \A i \in DOMAIN returns : returns[i].kind = "NotImplementedError"
          /\ self_partition_vector = << >>
          /\ DOMAIN self_best_partitions = {})
  /\ [][AbstractCallKeepsState]_vars

\* name has been read and partition() called on the base class
C8_Witness ==
  /\ cls = Abstract
  /\ last_name = "NotImplementedError"
  /\ Len(returns) >= 1

(* C9: for every k >= N, k > N included, partition(G) makes every node its
   own seed, takes no growth step and no restart, and returns a vector in
   which each node is alone in its partition. *)
C9_TrivialWhenKAtLeastN ==
  /\ (pc # "idle" /\ K >= G.n) => pc \in {"seed", "while"} /\ partition_try_num = 0
  /\ \A i \in DOMAIN returns :
       (returns[i].computed /\ cls = Uniform /\ K >= GraphNamed(returns[i].g).n)
       => /\ returns[i].kind = "value"
          /\ \A x, y \in DOMAIN returns[i].value[1] :
               returns[i].value[1][x] = returns[i].value[1][y] => x = y

\* C9 for k = N alone
TrivialWhenKEqualsN ==
  /\ (pc # "idle" /\ K = G.n) => pc \in {"seed", "while"} /\ partition_try_num = 0
  /\ \A i \in DOMAIN returns :
       (returns[i].computed /\ cls = Uniform /\ K = GraphNamed(returns[i].g).n)
       => /\ returns[i].kind = "value"
          /\ \A x, y \in DOMAIN returns[i].value[1] :
               returns[i].value[1][x] = returns[i].value[1][y] => x = y

(* C10: with k = 1 partition(G) returns the all-zero vector and never
   restarts, whatever the tolerance; with k = N the N entries of the vector
   returned are pairwise distinct. *)
C10_Boundaries ==
  /\ (Growing /\ K = 1) => partition_try_num = 0
  /\ \A i \in Values :
       LET v == returns[i].value[1]
       IN /\ K = 1 => \A x \in DOMAIN v : v[x] = 0
          /\ K = GraphNamed(returns[i].g).n
               => \A x, y \in DOMAIN v : v[x] = v[y] => x = y

\* C10 on the connected graphs only
BoundariesOnConnected ==
  /\ (Growing /\ K = 1 /\ Connected([G EXCEPT !.edges = Sym(G.edges)]))
       => partition_try_num = 0
  /\ \A i \in Values :
       LET v == returns[i].value[1]
       IN /\ K = 1 => \A x \in DOMAIN v : v[x] = 0
          /\ K = GraphNamed(returns[i].g).n
               => \A x, y \in DOMAIN v : v[x] = v[y] => x = y

\* every node reaches every other when the edges are taken in either direction
WeaklyConnected(g) == Connected([g EXCEPT !.edges = Sym(g.edges)])

\* floor(self.tolerance * (uniform_partition_num + 1)) for the graph g
FloorCap(g) == (self_tolerance.num * ((g.n \div K) + 1)) \div self_tolerance.den

\* a partition that stopped growing, k - 1 other seeds and a node left over
\* do not fit into g
NoRoomForDeadlock(g) == g.n < FloorCap(g) + 1 + K

\* a run is at its seed draw, on a connected graph, with 1 <= k <= N
RunStarts == pc = "seed" /\ K \in 1..G.n /\ WeaklyConnected(G)

Star7NeverReturns ==
  \A i \in DOMAIN returns :
    returns[i].g = "Star7" => ~(K = 2 /\ self_tolerance.num < 2 * self_tolerance.den)

\* the results of runs on the 4-cycle with k = 2 and the default tolerance 0.2
C4Results ==
  IF cls = Uniform /\ self_num_partitions = <<2>>
       /\ self_tolerance = OnePlus([num |-> 1, den |-> 5])
    THEN {returns[i].value[1] : i \in {j \in Values : returns[j].g = "C4"}}
    ELSE {}

\* two contiguous partitions, and never the pairing {0,2}, {1,3}
AdjacentPairing(v) ==
  /\ {v[x] : x \in DOMAIN v} = {0, 1}
  /\ AllPartitionsContiguous(C4, v)
  /\ {Members(v, 0), Members(v, 1)} # {{0, 2}, {1, 3}}

(* C11: on the undirected 4-cycle with k = 2 and tolerance 0.2 every result
   is two contiguous partitions of exactly two nodes each, and never the
   non-adjacent pairing {0,2}, {1,3}. *)
C11_FourCycleTwoAndTwo ==
  \A v \in C4Results :
    /\ AdjacentPairing(v)
    /\ CountOf(v, 0) = 2 /\ CountOf(v, 1) = 2

(* C11, amended: every such result is two contiguous non-empty partitions, of
   two nodes each or of three nodes and one node, and never the non-adjacent
   pairing. *)
C11_FourCycleContiguous ==
  \A v \in C4Results :
    /\ AdjacentPairing(v)
    /\ <<CountOf(v, 0), CountOf(v, 1)>> \in {<<2, 2>>, <<3, 1>>, <<1, 3>>}

\* a run on the 4-cycle with k = 2 and tolerance 0.2 has returned
C11_Witness == pc = "idle" /\ C4Results # {}

\* no integer num_partitions was given to the constructor of the instance
DefaultCount == cls = Uniform /\ Len(num_partitions_arg) = 0

\* k is floor(sqrt(n))
FloorSqrtOf(k, n) == k >= 0 /\ k * k <= n /\ (k + 1) * (k + 1) > n

\* the graph of the first partition() call that reached _partition_impl
FirstGraph == IF Len(returns) = 0 THEN G ELSE GraphNamed(returns[1].g)

(* C12: without an explicit num_partitions, num_partitions reports -1 until
   the first partition() call, and every partition(G) call runs with
   k = floor(sqrt(N)) for the N of the graph it is given, also when an
   earlier call was given a graph of another size. *)
C12_DefaultCountPerGraph ==
  DefaultCount =>
    /\ (pc = "idle" /\ Len(returns) = 0) => num_partitions = -1
    /\ pc # "idle" => FloorSqrtOf(num_partitions, G.n)

(* C12, amended: without an explicit num_partitions, num_partitions reports
   -1 until the first partition() call; that call sets k = floor(sqrt(N)) for
   the N of its graph, and every later call on the instance runs with that
   same k, whatever the size of its graph. *)
C12_DefaultCountOfFirstGraph ==
  DefaultCount =>
    /\ (pc = "idle" /\ Len(returns) = 0) => num_partitions = -1
    /\ (pc # "idle" \/ Len(returns) > 0) => FloorSqrtOf(num_partitions, FirstGraph.n)

\* a default-count instance was given the 1-node graph, then the 4-node path
C12_Witness ==
  /\ DefaultCount
  /\ Len(returns) = 1 /\ returns[1].g = "P1"
  /\ pc # "idle" /\ G = P4

\* a path from a to b inside the subgraph of g induced by S: a sequence of
\* nodes of S, each joined to the next by an edge of g
PathInside(g, S, a, b) ==
  \E m \in 1..Cardinality(S) :
    \E q \in [1..m -> S] :
      /\ q[1] = a /\ q[m] = b
      /\ \A i \in 1..(m - 1) : <<q[i], q[i + 1]>> \in g.edges

\* every ordered pair of distinct members of partition k has such a path
PartitionIsContiguous(g, pv, k) ==
  \A a, b \in Members(pv, k) : a # b => PathInside(g, Members(pv, k), a, b)

\* the ids occurring in the assignment
IdsOf(pv) == {pv[x] : x \in DOMAIN pv}

\* the call returned, true exactly for the contiguous assignments, false with
\* the smallest failing id printed, and the assignment is as it was
ValidatorAnswersRight ==
  LET r == val_result[1]
      g == val_prob.G
      failing == {k \in IdsOf(val_p_v) : ~PartitionIsContiguous(g, val_p_v, k)}
  IN /\ r.kind = "value"
     /\ r.ok <=> failing = {}
     /\ ~r.ok => /\ Len(r.printed) = 1
                 /\ r.printed[1] \in failing
                 /\ \A k \in failing : r.printed[1] <= k
     /\ r.p_v = val_p_v

(* C13: all_partitions_contiguous(graph, assignment) returns true if and only
   if, for every partition id occurring in the assignment, every ordered pair
   of distinct members has a path inside the subgraph induced by the members;
   it returns false at the first failing id in ascending order and never
   modifies the assignment. *)
C13_ValidatorCorrect ==
  (val_result # << >> /\ val_prob.kind = "graph") => ValidatorAnswersRight

\* the same for an object that has both the attribute G and subgraph()
ValidatorCorrectWithBoth ==
  (val_result # << >> /\ val_prob.kind = "graph_with_G") => ValidatorAnswersRight

\* the call raises for every graph and every problem object, unless the
\* assignment is empty
ValidatorRaisesOtherwise ==
  (val_result # << >> /\ val_prob.kind # "graph_with_G" /\ DOMAIN val_p_v # {})
    => val_result[1].kind = "AttributeError"

\* the unassigned nodes that have a partition to join
Eligible == {v \in UnassignedNodes(partition_vector) : Candidates(v) # {}}

\* a pass of the outer loop ends by a restart / by an assignment
RestartStep == pc = "tried" /\ pc' = "while" /\ neighboring_partitions = {}
AssignStep == pc = "tried" /\ pc' = "while" /\ neighboring_partitions # {}

\* the nodes tried so far in the pass, the one in hand last
TriedInPass == Append(already_tried, new_node)

\* within a pass: no node is tried twice, every node tried is unassigned,
\* and every node given up had no partition to join
PassTriesEachOnce ==
  pc = "tried" =>
    /\ \A i, j \in DOMAIN TriedInPass : TriedInPass[i] = TriedInPass[j] => i = j
    /\ Range(TriedInPass) \subseteq UnassignedNodes(partition_vector)
    /\ \A v \in Range(already_tried) : v \notin Eligible
    /\ neighboring_partitions = Candidates(new_node)

\* a pass restarts only when no unassigned node is eligible, and assigns
\* only an eligible node
RestartOnlyOnDeadlock ==
  /\ RestartStep => Eligible = {} /\ Range(TriedInPass) = UnassignedNodes(partition_vector)
  /\ AssignStep => new_node \in Eligible

(* C14: in one pass of the outer loop a restart is taken if and only if no
   unassigned node has an eligible partition; if some unassigned node has
   one, the pass ends by assigning a node; no node is tried twice in a pass. *)
C14_DeadlockDetection == []PassTriesEachOnce /\ [][RestartOnlyOnDeadlock]_vars

\* a restart has just been taken, after a pass that tried two nodes
C14_Witness ==
  /\ pc = "while"
  /\ partition_try_num >= 1
  /\ Len(already_tried) >= 1
  /\ Cardinality(UnassignedNodes(partition_vector)) = G.n - K

\* the vector holds exactly one node of each id 0..k-1 and -1 elsewhere
FreshlySeeded(pv, n, k) ==
  /\ DOMAIN pv = 0..(n - 1)
  /\ \A p \in 0..(k - 1) : CountOf(pv, p) = 1
  /\ Cardinality(UnassignedNodes(pv)) = n - k

(* C15: right after a deadlock restart exactly k nodes are assigned, the new
   seeds, and the N-k others hold -1, whatever was assigned before; the retry
   counter (counted up to MaxTries) has grown by exactly 1; k, the tolerance
   and uniform_size = floor(N/k) are as before; the caller gets no error. *)
C15_RestartResets ==
  [][RestartStep =>
       /\ FreshlySeeded(partition_vector', G.n, K)
       /\ partition_try_num < MaxTries => partition_try_num' = partition_try_num + 1
       /\ UNCHANGED <<self_num_partitions, self_tolerance, uniform_partition_num, G>>
       /\ uniform_partition_num' = G.n \div K
       /\ returns' = returns
       /\ pc' = "while"]_vars

\* the first restart of a run on the two 2-node components with k = 2 has
\* just been taken
C15_Witness ==
  /\ G = Split4 /\ K = 2
  /\ pc = "while"
  /\ partition_try_num = 1
  /\ FreshlySeeded(partition_vector, G.n, K)

\* the entries that the step changes
Changed == {x \in DOMAIN partition_vector : partition_vector'[x] # partition_vector[x]}

\* x is joined to y by an edge, in either direction
Adjacent(g, x, y) == <<x, y>> \in g.edges \/ <<y, x>> \in g.edges

\* the step assigns one unassigned node to a partition that holds one of its
\* neighbours and leaves every other entry alone
GrowsByOne ==
  /\ DOMAIN partition_vector' = DOMAIN partition_vector
  /\ Cardinality(Changed) = 1
  /\ \A x \in Changed :
       /\ partition_vector[x] = Unassigned
       /\ partition_vector'[x] \in 0..(K - 1)
       /\ \E y \in Nodes(G) : Adjacent(G, x, y) /\ partition_vector[y] = partition_vector'[x]
  /\ Cardinality(UnassignedNodes(partition_vector'))
       = Cardinality(UnassignedNodes(partition_vector)) - 1

\* a step inside the growth that is not a restart keeps every assigned node
KeepsAssigned ==
  (Growing /\ Growing' /\ ~RestartStep) =>
    \A x \in DOMAIN partition_vector :
      partition_vector[x] # Unassigned => partition_vector'[x] = partition_vector[x]

(* C16: each pass of the outer loop that does not restart changes exactly one
   entry of the partition vector, from -1 to the id of a partition that holds
   a neighbour (in- or out-) of that node, and no other entry; between two
   restarts no assigned node changes partition, and each pass leaves one
   unassigned node fewer. *)
C16_GrowthStep == [][(AssignStep => GrowsByOne) /\ KeepsAssigned]_vars

\* a run on the 5-node path with k = 2 has assigned two nodes beyond its seeds
C16_Witness ==
  /\ G = P5 /\ K = 2
  /\ pc = "while"
  /\ Cardinality(UnassignedNodes(partition_vector)) = 1

\* the seed draw at the start of a run
SeedStep == pc = "seed" /\ pc' = "while"

\* during the growth no partition id is without a member, and a returned
\* vector uses exactly the ids 0..k-1
NoEmptyPartition ==
  /\ (Growing /\ K \in 1..G.n) =>
       \A p \in 0..(K - 1) : Members(partition_vector, p) # {}
  /\ \A i \in Values :
       (returns[i].computed /\ K \in 1..GraphNamed(returns[i].g).n)
         => /\ IdsOf(returns[i].value[1]) = 0..(K - 1)
            /\ Cardinality(IdsOf(returns[i].value[1])) = K

(* C17: for 1 <= k <= N, after every seeding (the first and the one of every
   restart) the k seeds are distinct and carry the ids 0..k-1, one each, so
   that at every moment of the growth every id has a member, and the vector
   returned uses exactly k distinct ids. *)
C17_NoEmptyPartition ==
  /\ []NoEmptyPartition
  /\ [][((SeedStep \/ RestartStep) /\ K \in 1..G.n)
          => FreshlySeeded(partition_vector', G.n, K)]_vars

\* a run on the two 2-node components with k = 3 has returned
C17_Witness ==
  /\ pc = "idle"
  /\ \E i \in Values : returns[i].g = "Split4" /\ returns[i].computed /\ K = 3

\* the nodes of S are joined to each other inside S by edges of g taken in
\* either direction
WeaklyConnectedIn(g, S) ==
  \A a \in S : Reach([g EXCEPT !.edges = Sym(g.edges)], S, {a}) = S

\* every partition has a member and is connected inside itself
ContiguousAtEveryStep ==
  (Growing /\ K \in 1..G.n) =>
    \A p \in 0..(K - 1) :
      /\ Members(partition_vector, p) # {}
      /\ WeaklyConnectedIn(G, Members(partition_vector, p))

\* a step of the growth that is not a restart keeps the members, the seed
\* among them, of every partition
KeepsMembers ==
  (Growing /\ Growing' /\ ~RestartStep) =>
    \A p \in 0..(K - 1) :
      Members(partition_vector, p) \subseteq Members(partition_vector', p)

(* C18: at every moment of the growth, on any graph, connected or not, the
   nodes assigned to partition i include seed i and are connected to each
   other inside the partition by edges taken in either direction. *)
C18_ContiguousThroughout == []ContiguousAtEveryStep /\ [][KeepsMembers]_vars

\* on the directed 3-node path a partition has grown along an arc that the
\* validator, which follows the arcs' direction, does not accept
C18_Witness ==
  /\ Growing /\ G = DiP3
  /\ \E p \in 0..(K - 1) :
       /\ Cardinality(Members(partition_vector, p)) >= 2
       /\ ~IsPartitionValid(G, Members(partition_vector, p))

\* the last partition() call that returned an assignment
LastValue == CHOOSE i \in Values : \A j \in Values : j <= i

\* how many nodes of v share the id p
SizeOf(v, p) == Cardinality(Members(v, p))

(* C19: after any sequence of partition() calls that returned assignments,
   partition_vector is the assignment the most recent one returned,
   size_of_largest_partition is the largest number of nodes sharing one id in
   it, and largest_partition_index is the smallest id of that size. *)
C19_DerivedQueries ==
  (pc = "idle" /\ Values # {}) =>
    LET v == returns[LastValue].value[1]
    IN /\ self_partition_vector = <<v>>
       /\ \A p \in IdsOf(v) : SizeOf(v, p) <= size_of_largest_partition
       /\ \E p \in IdsOf(v) : SizeOf(v, p) = size_of_largest_partition
       /\ SizeOf(v, largest_partition_index) = size_of_largest_partition
       /\ \A p \in IdsOf(v) :
            p < largest_partition_index => SizeOf(v, p) < size_of_largest_partition

\* one instance has partitioned the 1-node graph and then, with override_cache
\* set, the 4-node path
C19_Witness ==
  /\ pc = "idle"
  /\ Len(returns) = 2
  /\ returns[1].kind = "value" /\ returns[1].g = "P1"
  /\ returns[2].kind = "value" /\ returns[2].g = "P4" /\ returns[2].override
  /\ size_of_largest_partition = 4

====
